---- MODULE Spec2Model ----
(***************************************************************************)
(* webview_proc: a controller facade (WebViewProcess) drives a pywebview   *)
(* window that lives in a worker process.  The two sides talk over one     *)
(* duplex multiprocessing Pipe: Requests go down (p2c), Responses come     *)
(* back (c2p).  Inside the worker the main thread owns the blocking        *)
(* event loop and a daemon thread (handle_commands) polls the pipe.        *)
(***************************************************************************)
EXTENDS Integers, Sequences, FiniteSets, TLC

VARIABLES
    \* ---- controller facade (WebViewProcess fields) ----
    is_alive,      \* self._is_alive
    request_id,    \* self._request_id
    process,       \* self.process: "None" or "Process"
    argv,          \* sys.argv of the controller process
    cpc,           \* where the controller's single thread is
    op,            \* the facade method being run (or last run)
    req,           \* the Request the method has sent (its argument while it runs)
    ret,           \* how the facade call ended (NoCall while one is running)
    original_argv, \* start()'s local original_argv
    \* ---- the Pipe ----
    p2c,           \* Requests written to parent_conn, not yet read by the worker
    c2p,           \* Responses written to child_conn, not yet read by the controller
    holders,       \* processes holding the worker-side end (child_conn) open
    \* ---- worker process ----
    proc,          \* the OS process: "none", "running", "exited"
    exitcode,      \* Process.exitcode: "None", 0, -15
    wpc,           \* where the worker's main thread is
    werr,          \* str(e) of the exception _run_webview's except clause caught
    conn_closed,   \* conn.close() was called in the worker
    wargv,         \* sys.argv of the worker process
    woriginal_argv, \* _run_webview's local original_argv
    window,        \* the pywebview window: "none", "open", "destroyed"
    files,         \* the filesystem: what the path the save dialog names holds
    ppc,           \* where the handle_commands thread is
    preq,          \* the Request the poller has received
    presp,         \* the Response the poller is about to send
    \* ---- bookkeeping of what has happened (read by the properties only) ----
    assigned,      \* every request id handed out, in order
    executed,      \* request id -> times request.process() ran
    answered,      \* request id -> Responses carrying it written by the worker
    sentinels,     \* Responses with request_id 0 written by the current worker
    create_failed, \* the current worker failed before its event loop started
    close_returned, \* close() has returned normally since the last start()
    skipped,       \* Responses the running (or last) receive loop discarded
    failed,        \* request ids whose request.process() raised
    torn_alive,    \* __del__ found the facade alive and went on to close()
    nworkers,      \* worker processes spawned by the facade that are running
    leftover       \* messages in the pipe when the latest worker was spawned

vars == <<is_alive, request_id, process, argv, cpc, op, req, ret, original_argv,
          p2c, c2p, holders,
          proc, exitcode, wpc, werr, conn_closed, wargv, woriginal_argv, window, files,
          ppc, preq, presp,
          assigned, executed, answered, sentinels, create_failed, close_returned,
          skipped, failed, torn_alive, nworkers, leftover>>

ctlVars == <<is_alive, request_id, process, argv, cpc, op, req, ret, original_argv>>
wmainVars == <<proc, exitcode, wpc, werr, conn_closed, wargv, woriginal_argv>>
pollVars == <<ppc, preq, presp>>
histVars == <<assigned, executed, answered, sentinels, create_failed, close_returned,
              skipped, failed, torn_alive, nworkers, leftover>>

\* ------------------------------------------------------------------ bounds
\* request ids handed out in one run of the model
MaxReq == 3

\* ------------------------------------------------------------------ values
\* Python values that cross the pipe, as sequences of strings.
None == <<"None">>
True == <<"bool", "True">>
False == <<"bool", "False">>
Str(s) == <<"str", s>>
List(l) == <<"list">> \o l

\* a Python str given by its code points, a bytes object by its byte values,
\* and the empty tuple: what save_file may be handed as file_contents
Text(cps) == <<"text", cps>>

Bytes(bs) == <<"bytes", bs>>

EmptyTuple == <<"tuple">>

\* the file_contents of the calls: 'h\xe9' (two code points), b'h\xc3\xa9', ()
Contents == {Text(<<104, 233>>), Bytes(<<104, 195, 169>>), EmptyTuple}

\* what open(..., 'w', encoding='utf-8') writes for a str: one byte for a code
\* point below 128, two for one below 2048
EncodeUtf8(cps) ==
    LET enc[i \in 0..Len(cps)] ==
            IF i = 0 THEN <<>>
            ELSE enc[i - 1] \o (IF cps[i] < 128 THEN <<cps[i]>>
                                ELSE <<192 + (cps[i] \div 64), 128 + (cps[i] % 64)>>)
    IN enc[Len(cps)]

\* the path the save dialog names: no file there, or a file with these bytes
Absent == <<"absent">>

File(bs) == <<"file", bs>>

\* Python truthiness (if x: ...)
Truthy(v) ==
    CASE v = None -> FALSE
      [] v[1] = "bool" -> v = True
      [] v[1] = "str" -> v[2] # ""
      [] v[1] = "list" -> Len(v) > 1
      [] OTHER -> TRUE

\* str(e) of the exceptions the toolkit raises: an exception without a message
\* (raise Exception()) has the empty description
Errors == {"", "boom"}

\* sys.argv of the controller when the program starts
InitialArgv == <<"prog", "--flag">>

Response(n, result, error) == [request_id |-> n, result |-> result, error |-> error]

Request(n, kind, arg) == [request_id |-> n, kind |-> kind, arg |-> arg]

NoRequest == Request(0, "none", None)

NoResponse == Response(0, None, None)

\* ------------------------------------------------------- Request classes
\* the facade methods that send a command, and the Request class each builds
CommandOps == {"close", "resize", "set_title", "toggle_fullscreen", "set_maximized",
               "pick_file", "save_file", "evaluate_javascript"}

RequestOf(o) ==
    CASE o = "close" -> "CloseRequest"
      [] o = "resize" -> "ResizeRequest"
      [] o = "set_title" -> "SetTitleRequest"
      [] o = "toggle_fullscreen" -> "ToggleFullscreenRequest"
      [] o = "set_maximized" -> "SetMaximizedRequest"
      [] o = "pick_file" -> "PickFileRequest"
      [] o = "save_file" -> "SaveFileRequest"
      [] o = "evaluate_javascript" -> "EvaluateJavascriptRequest"

\* the argument of the call the model keeps: pick_file's multiple flag,
\* save_file's file_contents
ArgsOf(o) ==
    CASE o = "pick_file" -> {True, False}
      [] o = "save_file" -> Contents
      [] OTHER -> {None}

\* ------------------------------------------------------------- the toolkit
\* What a pywebview call made by request.process() can do: raise an
\* exception with description e, or return a value.  Ping calls nothing.
ToolkitValues(kind) ==
    CASE kind = "PickFileRequest" -> {None, Str("a.txt"), List(<<"a.txt", "b.txt">>)}
      [] kind = "SaveFileRequest" -> {None, Str("out.txt")}
      [] kind = "EvaluateJavascriptRequest" -> {None, Str("js result")}
      [] OTHER -> {None}

ToolkitOutcomes(kind) ==
    [raises : {None}, value : ToolkitValues(kind)]
    \cup (IF kind = "PingRequest" THEN {}
          ELSE [raises : {Str(e) : e \in Errors}, value : {None}])

\* PickFileRequest.process: the dialog's str / tuple / None as a list of str
PickFilePaths(paths) ==
    IF paths[1] = "str" THEN List(<<paths[2]>>)
    ELSE IF Truthy(paths) THEN paths
    ELSE List(<<>>)

\* Request.process of each class, when the toolkit call returned out.value
Process(request, out) ==
    CASE request.kind = "PickFileRequest" ->
            Response(request.request_id, PickFilePaths(out.value), None)
      [] request.kind = "SaveFileRequest" ->
            Response(request.request_id,
                     IF Truthy(out.value) THEN True ELSE False, None)
      [] request.kind = "EvaluateJavascriptRequest" ->
            Response(request.request_id, out.value, None)
      [] OTHER -> Response(request.request_id, True, None)

\* str(e) of the exception request.process raises, None when it returns: the
\* toolkit call's exception, or the TypeError of f.write(file_contents) on a
\* file opened 'wb' when the contents are not bytes
ProcessRaises(request, out) ==
    IF out.raises # None THEN out.raises
    ELSE IF /\ request.kind = "SaveFileRequest"
            /\ Truthy(out.value)
            /\ request.arg[1] \notin {"text", "bytes"}
    THEN Str("a bytes-like object is required, not 'tuple'")
    ELSE None

\* SaveFileRequest.process on the filesystem: nothing without a destination;
\* str contents are written encoded; anything else goes to open(..., 'wb'),
\* which creates or truncates the file before f.write is called
FilesAfter(request, out) ==
    IF request.kind = "SaveFileRequest" /\ out.raises = None /\ Truthy(out.value)
    THEN IF request.arg[1] = "text" THEN File(EncodeUtf8(request.arg[2]))
         ELSE IF request.arg[1] = "bytes" THEN File(request.arg[2])
         ELSE File(<<>>)
    ELSE files

\* an error Response that keeps a result next to the error
HandleCommandBoth(request, out) ==
    IF ProcessRaises(request, out) # None
    THEN Response(request.request_id, False, ProcessRaises(request, out))
    ELSE Process(request, out)

\* handle_commands' inner try/except around request.process
HandleCommand(request, out) ==
    IF ProcessRaises(request, out) # None
    THEN Response(request.request_id, None, ProcessRaises(request, out))
    ELSE Process(request, out)

\* a handle_commands without the inner try/except: the exception reaches the
\* outer one, which leaves the loop
PollerStops(request, out) ==
    IF ProcessRaises(request, out) # None THEN "done" ELSE "send"

\* handle_commands after request.process: the Response, result or error, is
\* sent next
PollerNext(request, out) == "send"

\* a CloseRequest.process that leaves the window alone
WindowKept(request, out) == window

\* CloseRequest.process destroys the window when window.destroy() returns
WindowAfter(request, out) ==
    IF request.kind = "CloseRequest" /\ out.raises = None THEN "destroyed" ELSE window

\* ------------------------------------------------------------ the facade
\* how a facade call ended: inner is what _send_command returned to it
Returned(o, value, inner) ==
    [op |-> o, outcome |-> "returned", exc |-> "", value |-> value, inner |-> inner]

Raised(o, exc, message) ==
    [op |-> o, outcome |-> "raised", exc |-> exc, value |-> message, inner |-> None]

NoCall == [op |-> "none", outcome |-> "none", exc |-> "", value |-> None, inner |-> None]

\* a _new_request_id that steps by two
NewRequestIdSkips == request_id + 2

\* _new_request_id without the increment
NewRequestIdStuck == request_id

\* _new_request_id: the id it returns (and stores in self._request_id)
NewRequestId == request_id + 1

\* _send_command without its guard
SendCommandUnguarded == TRUE

\* _send_command's guard: the command may be sent
SendCommandGuard == is_alive

\* a receive loop that also takes a Response with an older id
MatchesOlder(response, request) == response.request_id <= request.request_id

\* a receive loop that takes whatever Response comes first
MatchesAny(response, request) == TRUE

\* _send_command / _wait_for_window: the Response answers the Request
Matches(response, request) == response.request_id = request.request_id

\* a handshake that does not look for the sentinel
IsSentinelNever(response) == FALSE

\* _wait_for_window: not response.request_id
IsSentinel(response) == response.request_id = 0

\* parent_conn.recv() raises EOFError once nothing is buffered and no process
\* holds the other end open
ParentEOF == c2p = <<>> /\ holders = {}

\* a start() that does not look at the process it already has
ProcessIsAliveNever == FALSE

\* Process.is_alive() of self.process
ProcessIsAlive == process # "None" /\ proc = "running"

\* a pick_file that hands back the list whatever multiple says
PickFileReturnList(result, multiple) == result

\* pick_file's last line: result if multiple else result[0] if result else None
PickFileReturn(result, multiple) ==
    IF multiple = True THEN result
    ELSE IF Truthy(result) THEN Str(result[2])
    ELSE None

\* what the facade method hands back from _send_command's result
FacadeReturn(o, request, result) ==
    CASE o = "pick_file" -> PickFileReturn(result, request.arg)
      [] o \in {"save_file", "evaluate_javascript"} -> result
      [] OTHER -> None

\* a handshake that takes any successful Response for the Ping's
HandshakeDoneUnmatched(response, request) ==
    ~Truthy(response.error) /\ response.result = True

\* _wait_for_window: the Response that ends the handshake
HandshakeDone(response, request) ==
    /\ Matches(response, request)
    /\ ~Truthy(response.error)
    /\ response.result = True

\* a start() whose finally clause leaves sys.argv as it is
StartFinallyKeeps == argv

\* start()'s finally clause: sys.argv = original_argv
StartFinally == original_argv

\* start(): refuses a running process; otherwise truncates sys.argv, spawns the
\* worker with child_conn, marks the facade alive and sends the Ping of
\* _wait_for_window
Start ==
    /\ cpc = "idle"
    /\ op' = "start"
    /\ IF ProcessIsAlive
       THEN /\ ret' = Raised("start", "RuntimeError", Str("Webview process is already running."))
            /\ UNCHANGED <<is_alive, request_id, process, argv, cpc, req, original_argv,
                           p2c, c2p, holders, window, files>>
            /\ UNCHANGED <<wmainVars, pollVars, histVars>>
       ELSE /\ request_id < MaxReq
            /\ original_argv' = argv
            /\ argv' = SubSeq(argv, 1, 1)
            /\ process' = "Process"
            /\ proc' = "running"
            /\ exitcode' = "None"
            /\ wpc' = "boot"
            /\ werr' = None
            /\ conn_closed' = FALSE
            /\ wargv' = argv'
            /\ woriginal_argv' = <<>>
            /\ window' = "none"
            /\ ppc' = "none"
            /\ preq' = NoRequest
            /\ presp' = NoResponse
            /\ holders' = holders \cup {"worker"}
            /\ is_alive' = TRUE
            /\ request_id' = NewRequestId
            /\ req' = Request(NewRequestId, "PingRequest", None)
            /\ p2c' = Append(p2c, req')
            /\ cpc' = "handshake"
            /\ assigned' = Append(assigned, NewRequestId)
            /\ sentinels' = 0
            /\ create_failed' = FALSE
            /\ close_returned' = FALSE
            /\ ret' = NoCall
            /\ nworkers' = nworkers + 1
            /\ leftover' = Len(c2p) + Len(p2c)
            /\ skipped' = 0
            /\ UNCHANGED <<c2p, files, executed, answered, failed, torn_alive>>

\* _wait_for_window's loop, one parent_conn.recv() at a time, and start()'s
\* finally clause when the loop ends
WaitForWindowRecv ==
    /\ cpc = "handshake"
    /\ UNCHANGED <<is_alive, request_id, process, op, req, original_argv, p2c, holders,
                   window, files>>
    /\ UNCHANGED <<wmainVars, pollVars>>
    /\ UNCHANGED <<assigned, executed, answered, sentinels, create_failed, close_returned,
                   failed, torn_alive, nworkers, leftover>>
    /\ IF c2p # <<>>
       THEN LET response == Head(c2p) IN
            /\ c2p' = Tail(c2p)
            /\ IF IsSentinel(response)
               THEN /\ ret' = Raised("start", "RuntimeError", response.error)
                    /\ argv' = StartFinally
                    /\ cpc' = "idle"
                    /\ UNCHANGED skipped
               ELSE IF HandshakeDone(response, req)
               THEN /\ ret' = Returned("start", None, None)
                    /\ argv' = StartFinally
                    /\ cpc' = "idle"
                    /\ UNCHANGED skipped
               ELSE /\ skipped' = skipped + 1
                    /\ UNCHANGED <<ret, argv, cpc>>
       ELSE /\ ParentEOF
            /\ ret' = Raised("start", "EOFError", None)
            /\ argv' = StartFinally
            /\ cpc' = "idle"
            /\ UNCHANGED <<c2p, skipped>>

\* _send_command up to its first recv, for facade method o (close() called by
\* __del__ included): the guard, then parent_conn.send
SendCommand(o, request) ==
    /\ request_id' = request.request_id
    /\ assigned' = Append(assigned, request.request_id)
    /\ op' = o
    /\ IF ~SendCommandGuard
       THEN /\ ret' = Raised(o, "RuntimeError", Str("Webview process is not running."))
            /\ cpc' = IF o = "del" THEN "gone" ELSE "idle"
            /\ UNCHANGED <<req, p2c, skipped>>
       ELSE /\ p2c' = Append(p2c, request)
            /\ req' = request
            /\ cpc' = "recv"
            /\ skipped' = 0
            /\ ret' = NoCall
    /\ UNCHANGED <<is_alive, process, argv, original_argv, c2p, holders, window, files>>
    /\ UNCHANGED <<wmainVars, pollVars>>
    /\ UNCHANGED <<executed, answered, sentinels, create_failed, close_returned, failed,
                   nworkers, leftover>>
    /\ torn_alive' = (torn_alive \/ o = "del")

\* close, resize, set_title, toggle_fullscreen, set_maximized, pick_file,
\* save_file, evaluate_javascript: build the Request with a new id and hand it
\* to _send_command
CallCommand(o, a) ==
    /\ cpc = "idle"
    /\ request_id < MaxReq
    /\ SendCommand(o, Request(NewRequestId, RequestOf(o), a))

\* where the controller goes when the method it runs ends by raising
AfterRaise == IF op = "del" THEN "gone" ELSE "idle"

\* _send_command's loop, one parent_conn.recv() at a time, and what the facade
\* method does with the outcome (close() clears _is_alive on a normal return);
\* the Request's argument goes when the method ends
SendCommandRecv ==
    /\ cpc = "recv"
    /\ UNCHANGED <<request_id, process, argv, op, original_argv, p2c, holders, window, files>>
    /\ UNCHANGED <<wmainVars, pollVars>>
    /\ UNCHANGED <<assigned, executed, answered, sentinels, create_failed, failed,
                   torn_alive, nworkers, leftover>>
    /\ IF c2p # <<>>
       THEN LET response == Head(c2p) IN
            /\ c2p' = Tail(c2p)
            /\ IF ~Matches(response, req)
               THEN /\ skipped' = skipped + 1
                    /\ UNCHANGED <<is_alive, cpc, ret, close_returned>>
               ELSE IF Truthy(response.error)
               THEN /\ ret' = Raised(op, "WebViewException", response.error)
                    /\ cpc' = AfterRaise
                    /\ UNCHANGED <<is_alive, close_returned, skipped>>
               ELSE IF op \in {"close", "del"}
               THEN /\ is_alive' = FALSE
                    /\ close_returned' = TRUE
                    /\ ret' = Returned("close", None, response.result)
                    /\ cpc' = IF op = "del" THEN "del_terminate" ELSE "idle"
                    /\ UNCHANGED skipped
               ELSE /\ ret' = Returned(op, FacadeReturn(op, req, response.result),
                                       response.result)
                    /\ cpc' = "idle"
                    /\ UNCHANGED <<is_alive, close_returned, skipped>>
       ELSE /\ ParentEOF
            /\ ret' = Raised(op, "EOFError", None)
            /\ cpc' = AfterRaise
            /\ UNCHANGED <<is_alive, c2p, close_returned, skipped>>
    /\ req' = IF cpc' = "recv" THEN req ELSE [req EXCEPT !.arg = None]

\* join(): waits for the process only when the facade is marked alive
Join ==
    /\ cpc = "idle"
    /\ op' = "join"
    /\ IF process # "None" /\ is_alive
       THEN cpc' = "joining" /\ ret' = NoCall
       ELSE ret' = Returned("join", None, None) /\ UNCHANGED cpc
    /\ UNCHANGED <<is_alive, request_id, process, argv, req, original_argv,
                   p2c, c2p, holders, window, files>>
    /\ UNCHANGED <<wmainVars, pollVars, histVars>>

\* join(): self.process.join() returns once the process has exited
JoinWait ==
    /\ cpc = "joining"
    /\ proc = "exited"
    /\ is_alive' = FALSE
    /\ cpc' = "idle"
    /\ ret' = Returned("join", None, None)
    /\ UNCHANGED <<request_id, process, argv, op, req, original_argv,
                   p2c, c2p, holders, window, files>>
    /\ UNCHANGED <<wmainVars, pollVars, histVars>>

\* __del__: nothing to do unless there is a process and the facade is alive;
\* then close(), whose exception ends __del__ before terminate()
Del ==
    /\ cpc = "idle"
    /\ IF process # "None" /\ is_alive
       THEN /\ request_id < MaxReq
            /\ SendCommand("del", Request(NewRequestId, "CloseRequest", None))
       ELSE /\ op' = "del"
            /\ cpc' = "gone"
            /\ ret' = Returned("del", None, None)
            /\ UNCHANGED <<is_alive, request_id, process, argv, req, original_argv,
                           p2c, c2p, holders, window, files>>
            /\ UNCHANGED <<wmainVars, pollVars, histVars>>

\* __del__: self.process.terminate() sends SIGTERM; an exited process ignores it
DelTerminate ==
    /\ cpc = "del_terminate"
    /\ cpc' = "del_join"
    /\ IF proc = "running"
       THEN /\ proc' = "exited"
            /\ exitcode' = "-15"
            /\ wpc' = "killed"
            /\ ppc' = "dead"
            /\ holders' = holders \ {"worker"}
            /\ nworkers' = nworkers - 1
       ELSE UNCHANGED <<proc, exitcode, wpc, ppc, holders, nworkers>>
    /\ UNCHANGED <<is_alive, request_id, process, argv, op, req, ret, original_argv,
                   p2c, c2p, window, files, werr, conn_closed, wargv, woriginal_argv, preq, presp>>
    /\ UNCHANGED <<assigned, executed, answered, sentinels, create_failed, close_returned,
                   skipped, failed, torn_alive, leftover>>

\* __del__: self.process.join()
DelJoin ==
    /\ cpc = "del_join"
    /\ proc = "exited"
    /\ cpc' = "gone"
    /\ ret' = Returned("del", None, None)
    /\ UNCHANGED <<is_alive, request_id, process, argv, op, req, original_argv,
                   p2c, c2p, holders, window, files>>
    /\ UNCHANGED <<wmainVars, pollVars, histVars>>

\* ------------------------------------------------- the worker's main thread
\* _run_webview up to start(): saves and truncates sys.argv, creates the window
\* (create_window, maximize, toggle_fullscreen) and starts handle_commands; an
\* exception raised on the way goes to the except clause
RunWebviewCreate ==
    /\ wpc = "boot"
    /\ woriginal_argv' = wargv
    /\ wargv' = SubSeq(wargv, 1, 1)
    /\ \/ /\ window' = "open"
          /\ ppc' = "poll"
          /\ wpc' = "loop"
          /\ UNCHANGED <<werr, create_failed>>
       \/ \E e \in Errors :
          /\ werr' = Str(e)
          /\ wpc' = "except"
          /\ create_failed' = TRUE
          /\ UNCHANGED <<window, ppc>>
    /\ UNCHANGED <<ctlVars, p2c, c2p, holders, files, proc, exitcode, conn_closed, preq, presp>>
    /\ UNCHANGED <<assigned, executed, answered, sentinels, close_returned,
                   skipped, failed, torn_alive, nworkers, leftover>>

\* the user closes the window while the event loop runs
UserClosesWindow ==
    /\ wpc = "loop"
    /\ window = "open"
    /\ window' = "destroyed"
    /\ UNCHANGED <<ctlVars, p2c, c2p, holders, files, wmainVars, pollVars, histVars>>

\* webview.start() returns once the window is gone
EventLoopReturn ==
    /\ wpc = "loop"
    /\ window = "destroyed"
    /\ wpc' = "finally"
    /\ UNCHANGED <<ctlVars, p2c, c2p, holders, window, files, pollVars, histVars>>
    /\ UNCHANGED <<proc, exitcode, werr, conn_closed, wargv, woriginal_argv>>

\* webview.start() raises
EventLoopRaise ==
    /\ wpc = "loop"
    /\ \E e \in Errors : werr' = Str(e)
    /\ wpc' = "except"
    /\ UNCHANGED <<ctlVars, p2c, c2p, holders, window, files, pollVars, histVars>>
    /\ UNCHANGED <<proc, exitcode, conn_closed, wargv, woriginal_argv>>

\* except Exception as e: conn.send(Response(error=str(e)))
RunWebviewExcept ==
    /\ wpc = "except"
    /\ c2p' = Append(c2p, Response(0, None, werr))
    /\ sentinels' = sentinels + 1
    /\ wpc' = "finally"
    /\ UNCHANGED <<ctlVars, p2c, holders, window, files, pollVars>>
    /\ UNCHANGED <<proc, exitcode, werr, conn_closed, wargv, woriginal_argv>>
    /\ UNCHANGED <<assigned, executed, answered, create_failed, close_returned,
                   skipped, failed, torn_alive, nworkers, leftover>>

\* finally: sys.argv = original_argv; conn.close()
RunWebviewFinally ==
    /\ wpc = "finally"
    /\ wargv' = woriginal_argv
    /\ conn_closed' = TRUE
    /\ wpc' = "closed"
    /\ UNCHANGED <<ctlVars, p2c, c2p, holders, window, files, pollVars, histVars>>
    /\ UNCHANGED <<proc, exitcode, werr, woriginal_argv>>

\* _run_webview has returned: the process exits with code 0, which ends its
\* daemon thread and closes every handle it held
WorkerExit ==
    /\ wpc = "closed"
    /\ wpc' = "exited"
    /\ proc' = "exited"
    /\ exitcode' = "0"
    /\ ppc' = "dead"
    /\ holders' = holders \ {"worker"}
    /\ nworkers' = nworkers - 1
    /\ UNCHANGED <<ctlVars, p2c, c2p, window, files>>
    /\ UNCHANGED <<assigned, executed, answered, sentinels, create_failed, close_returned,
                   skipped, failed, torn_alive, leftover>>
    /\ UNCHANGED <<werr, conn_closed, wargv, woriginal_argv, preq, presp>>

\* ---------------------------------------------- the handle_commands thread
\* conn.poll(0.1) saw a message: request = conn.recv()
HandleCommandsRecv ==
    /\ ppc = "poll"
    /\ ~conn_closed
    /\ p2c # <<>>
    /\ preq' = Head(p2c)
    /\ p2c' = Tail(p2c)
    /\ ppc' = "process"
    /\ UNCHANGED <<ctlVars, c2p, holders, window, files, wmainVars, presp, histVars>>

\* response = request.process(window, conn), or the error Response
HandleCommandsProcess ==
    /\ ppc = "process"
    /\ \E out \in ToolkitOutcomes(preq.kind) :
          /\ presp' = HandleCommand(preq, out)
          /\ window' = WindowAfter(preq, out)
          /\ files' = FilesAfter(preq, out)
          /\ ppc' = PollerNext(preq, out)
          /\ failed' = IF ProcessRaises(preq, out) # None
                       THEN failed \cup {preq.request_id} ELSE failed
    /\ executed' = [executed EXCEPT ![preq.request_id] = @ + 1]
    /\ UNCHANGED <<ctlVars, p2c, c2p, holders, wmainVars, preq>>
    /\ UNCHANGED <<assigned, answered, sentinels, create_failed, close_returned,
                   skipped, torn_alive, nworkers, leftover>>

\* conn.send(response); request and response are dead until the next recv
HandleCommandsSend ==
    /\ ppc = "send"
    /\ ~conn_closed
    /\ c2p' = Append(c2p, presp)
    /\ answered' = [answered EXCEPT ![presp.request_id] = @ + 1]
    /\ ppc' = "poll"
    /\ preq' = NoRequest
    /\ presp' = NoResponse
    /\ UNCHANGED <<ctlVars, p2c, holders, window, files, wmainVars>>
    /\ UNCHANGED <<assigned, executed, sentinels, create_failed, close_returned,
                   skipped, failed, torn_alive, nworkers, leftover>>

\* conn.poll / conn.send on the closed connection raises OSError: the outer
\* except breaks out of the loop
HandleCommandsBreak ==
    /\ ppc \in {"poll", "send"}
    /\ conn_closed
    /\ ppc' = "done"
    /\ UNCHANGED <<ctlVars, p2c, c2p, holders, window, files, wmainVars, preq, presp, histVars>>

\* ------------------------------------------------------- the specification
Init ==
    /\ is_alive = FALSE
    /\ request_id = 0
    /\ process = "None"
    /\ argv = InitialArgv
    /\ cpc = "idle"
    /\ op = "none"
    /\ req = NoRequest
    /\ ret = NoCall
    /\ original_argv = <<>>
    /\ p2c = <<>>
    /\ c2p = <<>>
    /\ holders = {"controller"}
    /\ proc = "none"
    /\ exitcode = "None"
    /\ wpc = "none"
    /\ werr = None
    /\ conn_closed = FALSE
    /\ wargv = <<>>
    /\ woriginal_argv = <<>>
    /\ window = "none"
    /\ files = Absent
    /\ ppc = "none"
    /\ preq = NoRequest
    /\ presp = NoResponse
    /\ assigned = <<>>
    /\ executed = [n \in 1..MaxReq |-> 0]
    /\ answered = [n \in 1..MaxReq |-> 0]
    /\ sentinels = 0
    /\ create_failed = FALSE
    /\ close_returned = FALSE
    /\ skipped = 0
    /\ failed = {}
    /\ torn_alive = FALSE
    /\ nworkers = 0
    /\ leftover = 0

Controller ==
    \/ Start
    \/ WaitForWindowRecv
    \/ \E o \in CommandOps : \E a \in ArgsOf(o) : CallCommand(o, a)
    \/ SendCommandRecv
    \/ Join
    \/ JoinWait
    \/ Del
    \/ DelTerminate
    \/ DelJoin

WorkerMain ==
    \/ RunWebviewCreate
    \/ EventLoopReturn
    \/ RunWebviewExcept
    \/ RunWebviewFinally
    \/ WorkerExit

Poller ==
    \/ HandleCommandsRecv
    \/ HandleCommandsProcess
    \/ HandleCommandsSend
    \/ HandleCommandsBreak

Environment ==
    \/ UserClosesWindow
    \/ EventLoopRaise

Next == Controller \/ WorkerMain \/ Poller \/ Environment

Spec == Init /\ [][Next]_vars

\* The threads of the worker and the blocked calls of the controller keep
\* running; the user, the toolkit's failures and the application's next call
\* are under no obligation.
Fairness ==
    /\ WF_vars(RunWebviewCreate)
    /\ WF_vars(EventLoopReturn)
    /\ WF_vars(RunWebviewExcept)
    /\ WF_vars(RunWebviewFinally)
    /\ WF_vars(WorkerExit)
    /\ WF_vars(HandleCommandsRecv)
    /\ WF_vars(HandleCommandsProcess)
    /\ WF_vars(HandleCommandsSend)
    /\ WF_vars(HandleCommandsBreak)
    /\ WF_vars(WaitForWindowRecv)
    /\ WF_vars(SendCommandRecv)
    /\ WF_vars(JoinWait)
    /\ WF_vars(DelTerminate)
    /\ WF_vars(DelJoin)

FairSpec == Spec /\ Fairness

\* ------------------------------------------------------------------ claims
\* the step is a parent_conn.recv() that took a Response off the pipe
ControllerReceives == Len(c2p') < Len(c2p)

\* C1: a _send_command call that has sent request n leaves its receive loop
\* only by taking a Response with request_id n off the pipe; a Response with
\* another id is taken off and the loop goes on; and what the call returns is
\* that Response's result.
C1_OnlyMatchingResponseCompletes ==
    [][ /\ (cpc = "recv" /\ cpc' # "recv") =>
             /\ c2p # <<>>
             /\ c2p' = Tail(c2p)
             /\ Head(c2p).request_id = req.request_id
             /\ (ret'.outcome = "returned" => ret'.inner = Head(c2p).result)
        /\ (cpc = "recv" /\ ControllerReceives
              /\ Head(c2p).request_id # req.request_id) =>
             /\ c2p' = Tail(c2p)
             /\ cpc' = "recv"
             /\ ret' = ret
      ]_vars

\* a command call returned a result after discarding a Response of another id
C1_Witness ==
    /\ cpc = "idle"
    /\ op \in CommandOps
    /\ ret.op = op
    /\ ret.outcome = "returned"
    /\ ret.inner = True
    /\ skipped > 0

\* C3: the request ids handed out over the life of the facade are never zero
\* and strictly increasing, whatever calls were made and however they ended.
C3_RequestIdsIncrease ==
    /\ \A i \in 1..Len(assigned) : assigned[i] # 0
    /\ \A i \in 1..Len(assigned) : \A j \in 1..Len(assigned) :
          i < j => assigned[i] < assigned[j]
    /\ \A i \in 1..Len(assigned) : assigned[i] <= request_id

\* ids were handed out to a rejected call, to a start() and to a command
C3_Witness ==
    /\ Len(assigned) = MaxReq
    /\ process # "None"
    /\ ret.outcome = "raised"
    /\ cpc = "idle"

\* the step is a command method called while the facade is not alive
RejectedCall ==
    /\ cpc = "idle"
    /\ ~is_alive
    /\ op' \in CommandOps
    /\ request_id' # request_id

\* C4: a command method called while the facade is not alive raises at once:
\* nothing is written to or read from the pipe and the caller is not blocked.
C4_NotAliveRaisesImmediately ==
    [][ RejectedCall =>
          /\ ret'.outcome = "raised"
          /\ ret'.exc = "RuntimeError"
          /\ ret'.op = op'
          /\ p2c' = p2c
          /\ c2p' = c2p
          /\ cpc' = "idle"
      ]_vars

\* a command was rejected after close() had returned
C4_Witness ==
    /\ ret.op \in CommandOps
    /\ ret.exc = "RuntimeError"
    /\ close_returned
    /\ ~is_alive
    /\ cpc = "idle"

\* a command was rejected on a facade that was never started
C4_WitnessNeverStarted ==
    /\ ret.op \in CommandOps
    /\ ret.exc = "RuntimeError"
    /\ process = "None"

\* C8: a worker that fails to construct its window writes exactly one Response
\* with request_id 0, carrying the failure's description, before it exits; a
\* start() still in its handshake then has that Response waiting in the pipe;
\* and a start() that takes a Response with request_id 0 off the pipe raises
\* the initialization error there and then.
C8_StartupFailureSentinel ==
    /\ [](create_failed => sentinels <= 1)
    /\ []((create_failed /\ wpc \in {"finally", "closed", "exited"}) => sentinels = 1)
    /\ []((create_failed /\ wpc \in {"finally", "closed", "exited"} /\ cpc = "handshake") =>
             \E i \in 1..Len(c2p) : c2p[i] = Response(0, None, werr))
    /\ [][ (create_failed /\ wpc = "except" /\ wpc' # "except") =>
              (werr # None /\ c2p' = Append(c2p, Response(0, None, werr))) ]_vars
    /\ [][ (cpc = "handshake" /\ ControllerReceives /\ Head(c2p).request_id = 0) =>
              /\ cpc' = "idle"
              /\ ret' = Raised("start", "RuntimeError", Head(c2p).error) ]_vars

\* the worker failed to create its window and exited, and start() raised
C8_Witness ==
    /\ create_failed
    /\ proc = "exited"
    /\ sentinels = 1
    /\ cpc = "idle"
    /\ ret = Raised("start", "RuntimeError", Str("boom"))

\* C2: every command the worker takes off the pipe is executed exactly once
\* and answered by exactly one Response with its request_id, which is settled
\* for good once the worker process has exited.
C2_ExactlyOnce ==
    \A n \in 1..MaxReq :
        /\ executed[n] <= 1
        /\ answered[n] <= 1
        /\ (proc = "exited" /\ (executed[n] = 1 \/ preq.request_id = n)) =>
              (executed[n] = 1 /\ answered[n] = 1)

\* C5: a join() that returns after close() has returned finds the worker
\* process exited.
C5_JoinAfterCloseWaits ==
    (cpc = "idle" /\ op = "join" /\ ret.op = "join" /\ close_returned) =>
        proc # "running"

\* a Close is on its way to, or being handled by, a running worker
CloseInFlight == cpc = "recv" /\ req.kind = "CloseRequest" /\ proc = "running"

\* C6 as stated: a Close that the worker executes destroys the window, and a
\* worker that has answered a Close exits with exit code 0.
C6_CloseExitsZero ==
    /\ (req.kind = "CloseRequest" /\ executed[req.request_id] = 1) =>
          window = "destroyed"
    /\ (req.kind = "CloseRequest" /\ answered[req.request_id] = 1 /\ proc = "exited") =>
          exitcode = "0"

\* C6, amended: a Close whose window.destroy() returns destroys the window;
\* after a Close is sent to a running worker the process eventually exits
\* unless window.destroy() raised; and an exited worker has exit code 0 unless
\* __del__'s terminate() ended it.
C6_CloseLeadsToExit ==
    /\ [][ (ppc = "process" /\ ppc' = "send" /\ preq.kind = "CloseRequest"
              /\ presp'.error = None) => window' = "destroyed" ]_vars
    /\ [](proc = "exited" =>
             (exitcode = "0" \/ (exitcode = "-15" /\ torn_alive)))
    /\ [](exitcode = "0" => (window # "open" \/ werr # None))
    /\ (CloseInFlight ~> (proc = "exited" \/ req.request_id \in failed))

\* close() returned, the window is destroyed and the worker exited with code 0
C6_Witness ==
    /\ req.kind = "CloseRequest"
    /\ ret = Returned("close", None, True)
    /\ window = "destroyed"
    /\ proc = "exited"
    /\ exitcode = "0"
    /\ werr = None

\* C7: once __del__ has run on a facade it found alive, the worker process is
\* not running.
C7_TeardownLeavesNoWorker ==
    (cpc = "gone" /\ torn_alive) => proc # "running"

\* the Request the last finished call sent is the one the facade built last
LastCallSent == cpc = "idle" /\ ret.op = op /\ req.request_id = request_id

\* C9: an evaluate_javascript whose toolkit call raised is answered by a
\* Response with the description as error and no result, and the call raises
\* WebViewException with that description.
C9_EvaluateFailureRaises ==
    /\ (ppc = "send" /\ preq.request_id \in failed) =>
          (presp.error # None /\ presp.result = None)
    /\ (LastCallSent /\ op = "evaluate_javascript" /\ req.request_id \in failed) =>
          (ret.outcome = "raised" /\ ret.exc = "WebViewException")

\* C10: a controller inside a receive loop whose worker process has exited
\* can go on: a buffered Response or the channel-closed condition ends the
\* recv().
C10_NeverBlocksForever ==
    (cpc \in {"recv", "handshake"} /\ proc = "exited") =>
        ENABLED (SendCommandRecv \/ WaitForWindowRecv)

\* the step is a start() called while the worker process it spawned is running
StartWhileRunning ==
    /\ cpc = "idle"
    /\ op' = "start"
    /\ process # "None"
    /\ proc = "running"
    /\ (ret' # ret \/ request_id' # request_id)

\* C11: a start() called while the worker process is running raises and
\* spawns nothing: the process, its threads, the pipe and the facade's fields
\* are left as they were; and the facade never has more than one worker
\* process running.
C11_StartRefusesRunningWorker ==
    /\ [][ StartWhileRunning =>
             /\ ret' = Raised("start", "RuntimeError",
                              Str("Webview process is already running."))
             /\ cpc' = "idle"
             /\ UNCHANGED <<process, proc, wpc, ppc, p2c, c2p, holders, request_id,
                            is_alive, argv, nworkers>> ]_vars
    /\ [](nworkers <= 1)
    /\ [](nworkers = 1 <=> proc = "running")

\* a second start() was refused while the worker of the first was running
C11_Witness ==
    /\ cpc = "idle"
    /\ ret = Raised("start", "RuntimeError", Str("Webview process is already running."))
    /\ proc = "running"
    /\ nworkers = 1
    /\ Len(assigned) = 1

\* C12: a SaveFile changes the file only when the dialog named a destination
\* and the contents are str or bytes, and then the file holds exactly those
\* contents (a str in UTF-8) and the Response's result is true; a cancelled
\* dialog is answered false and contents that are neither str nor bytes by an
\* error, the file left as it was in both cases.
C12_SaveFileFrame ==
    [][ /\ (ppc = "process" /\ ppc' = "send" /\ preq.kind = "SaveFileRequest") =>
             \/ /\ presp' = Response(preq.request_id, True, None)
                /\ preq.arg = Text(<<104, 233>>)
                /\ files' = File(<<104, 195, 169>>)
             \/ /\ presp' = Response(preq.request_id, True, None)
                /\ preq.arg = Bytes(<<104, 195, 169>>)
                /\ files' = File(<<104, 195, 169>>)
             \/ /\ presp' = Response(preq.request_id, False, None)
                /\ files' = files
             \/ /\ presp'.error # None
                /\ presp'.result = None
                /\ files' = files
        /\ (files' # files) => (ppc = "process" /\ preq.kind = "SaveFileRequest")
      ]_vars

\* C13: when the worker answered a pick_file with a list, pick_file returns
\* that list if multiple is true, and otherwise its first element, or None
\* when the list is empty.
C13_PickFileReturn ==
    [][ (cpc = "recv" /\ cpc' = "idle" /\ op = "pick_file"
           /\ ret'.outcome = "returned" /\ ret'.inner[1] = "list") =>
          /\ ret'.inner = Head(c2p).result
          /\ IF req.arg = True THEN ret'.value = ret'.inner
             ELSE IF ret'.inner = List(<<>>) THEN ret'.value = None
             ELSE ret'.value = Str(ret'.inner[2])
      ]_vars

\* pick_file(multiple=False) returned the first of two paths
C13_Witness ==
    /\ cpc = "idle"
    /\ op = "pick_file"
    /\ ret = Returned("pick_file", Str("a.txt"), List(<<"a.txt", "b.txt">>))

\* C14: a request.process() that raises stops neither the poller nor the
\* worker: the poller goes on to send an error Response with the request's id,
\* then polls again and can take the next Request; the poller leaves its loop
\* only once the connection has been closed.
C14_FailureKeepsPoller ==
    /\ [][ (ppc = "process" /\ executed' # executed) =>
             /\ ppc' = "send"
             /\ presp'.request_id = preq.request_id
             /\ (preq.request_id \in failed' => presp'.error # None)
             /\ UNCHANGED <<proc, wpc, conn_closed>> ]_vars
    /\ [][ (ppc = "send" /\ answered' # answered) =>
             (ppc' = "poll" /\ c2p' = Append(c2p, presp)) ]_vars
    /\ [](ppc = "done" => conn_closed)
    /\ []((ppc = "poll" /\ failed # {} /\ ~conn_closed /\ p2c # <<>>) =>
             ENABLED HandleCommandsRecv)

\* a command failed and was answered, and the next one was executed and
\* answered by the same worker
C14_Witness ==
    /\ Len(assigned) = 3
    /\ nworkers = 1
    /\ 2 \in failed
    /\ answered[2] = 1
    /\ 3 \notin failed
    /\ executed[3] = 1
    /\ answered[3] = 1

\* C15: start() returns only by taking off the pipe a Response that carries
\* the id of its Ping and the result True, which the poller of a worker that
\* has created its window wrote; a Response with request_id 0 makes it raise;
\* a Response with any other id is taken off and the handshake goes on.
C15_StartReturnsAfterHandshake ==
    /\ [][ (cpc = "handshake" /\ cpc' = "idle" /\ ret'.outcome = "returned") =>
             /\ c2p # <<>>
             /\ c2p' = Tail(c2p)
             /\ req.kind = "PingRequest"
             /\ Head(c2p).request_id = req.request_id
             /\ Head(c2p).result = True
             /\ executed[req.request_id] = 1
             /\ window # "none"
             /\ ppc # "none" ]_vars
    /\ [][ (cpc = "handshake" /\ ControllerReceives /\ Head(c2p).request_id = 0) =>
             (cpc' = "idle" /\ ret'.outcome = "raised" /\ ret'.exc = "RuntimeError") ]_vars
    /\ [][ (cpc = "handshake" /\ ControllerReceives
              /\ Head(c2p).request_id \notin {0, req.request_id}) =>
             (cpc' = "handshake" /\ ret' = ret /\ c2p' = Tail(c2p)) ]_vars

\* a second start() returned after discarding the Ping Response left over from
\* the first
C15_Witness ==
    /\ cpc = "idle"
    /\ op = "start"
    /\ ret = Returned("start", None, None)
    /\ req.request_id = 2
    /\ skipped = 1
    /\ window = "open"

\* C16: a close() that has returned normally finds the window destroyed and
\* its Close answered, and leaves the facade not alive; close() itself never
\* terminates the worker.
C16_CloseReturnsAfterDestroy ==
    /\ (cpc = "idle" /\ op = "close" /\ ret.op = "close" /\ ret.outcome = "returned") =>
          /\ window = "destroyed"
          /\ answered[req.request_id] = 1
          /\ ~is_alive
    /\ (op = "close" /\ ~torn_alive) => exitcode # "-15"

\* C17: the Response the poller is about to send carries the id of the Request
\* it answers and never both a result and an error: when request.process()
\* raised it has the error and no result, otherwise it has no error.
C17_ResponseHasResultOrError ==
    /\ (ppc = "send") =>
          /\ presp.request_id = preq.request_id
          /\ ~(presp.result # None /\ presp.error # None)
          /\ (preq.request_id \in failed => (presp.result = None /\ presp.error # None))
          /\ (preq.request_id \notin failed => presp.error = None)
    /\ \A i \in 1..Len(c2p) :
          (c2p[i].request_id # 0) => ~(c2p[i].result # None /\ c2p[i].error # None)

\* an error Response for a command is about to be sent while a success
\* Response is on its way to the controller
C17_Witness ==
    /\ ppc = "send"
    /\ preq.kind # "PingRequest"
    /\ presp = Response(preq.request_id, None, Str("boom"))
    /\ c2p # <<>>
    /\ Head(c2p).result = True
    /\ Head(c2p).error = None

\* C18: the controller's sys.argv is cut to its first element exactly while
\* start() is spawning and handshaking, and is back to its prior value once
\* start() has returned or raised; the worker's sys.argv is cut while
\* _run_webview runs and is set back to the value it had on entry when
\* _run_webview ends.
C18_ArgvRestored ==
    /\ (cpc = "handshake") => (argv = <<"prog">> /\ original_argv = InitialArgv)
    /\ (cpc # "handshake") => argv = InitialArgv
    /\ (wpc \in {"loop", "except", "finally"}) => wargv = <<"prog">>
    /\ (wpc \in {"closed", "exited"}) =>
          (wargv = woriginal_argv /\ woriginal_argv = <<"prog">>)

\* start() raised on a failed handshake and the worker has run its finally
C18_Witness ==
    /\ cpc = "idle"
    /\ op = "start"
    /\ ret = Raised("start", "RuntimeError", Str("boom"))
    /\ argv = InitialArgv
    /\ wpc = "exited"
    /\ wargv = woriginal_argv

\* start() returned normally with sys.argv restored
C18_WitnessReturned ==
    /\ cpc = "idle"
    /\ op = "start"
    /\ ret = Returned("start", None, None)
    /\ argv = <<"prog", "--flag">>
    /\ wargv = <<"prog">>

\* C19: once the poller has destroyed the window for the Close that close()
\* is waiting on and has ended, the Close Response has been written to the
\* pipe.
C19_CloseResponseArrives ==
    (cpc = "recv" /\ op = "close" /\ req.kind = "CloseRequest"
       /\ executed[req.request_id] = 1 /\ req.request_id \notin failed
       /\ ppc \in {"done", "dead"}) =>
        answered[req.request_id] = 1

\* C20: after a start() that raised because the handshake failed the facade
\* is not alive.
C20_FailedStartNotAlive ==
    (cpc = "idle" /\ op = "start" /\ ret.op = "start" /\ ret.outcome = "raised"
       /\ ret.value # Str("Webview process is already running.")) =>
        ~is_alive

\* the step is a command method stopped by the guard of _send_command
GuardRejects ==
    /\ cpc = "idle"
    /\ ~is_alive
    /\ op' \in CommandOps
    /\ Len(assigned') > Len(assigned)

\* C21: a command call stopped by the not-alive guard moves the request
\* counter on by exactly one and changes nothing else: the alive flag, the
\* process handle, both directions of the pipe, the worker and the files are
\* as they were.
C21_RejectedCallOnlyCounts ==
    [][ GuardRejects =>
          /\ request_id' = request_id + 1
          /\ assigned' = Append(assigned, request_id + 1)
          /\ UNCHANGED <<is_alive, process, p2c, c2p, holders, argv, req, window, files>>
          /\ UNCHANGED <<wmainVars, pollVars>>
      ]_vars

\* a command was rejected while the exited worker's last Response was still
\* in the pipe
C21_Witness ==
    /\ cpc = "idle"
    /\ ret.op \in CommandOps
    /\ ret.exc = "RuntimeError"
    /\ ~is_alive
    /\ proc = "exited"
    /\ c2p # <<>>
    /\ request_id = Len(assigned)

\* the step is a start() that spawns a worker on a facade that had one before
Restart == cpc = "idle" /\ cpc' = "handshake" /\ process # "None"

\* C22: a start() on a facade whose worker has exited keeps the pipe, with
\* whatever is in it, and goes on counting: its Ping's id is above every id
\* handed out before and above the id of every message in the pipe; when a
\* command is sent nothing in the pipe or in the poller's hands carries its
\* id; and a command call ends only on a Response with its id, written after
\* a worker executed that very Request.
C22_RestartKeepsCounting ==
    /\ [][ Restart =>
             /\ proc = "exited"
             /\ request_id' = request_id + 1
             /\ req'.request_id = request_id'
             /\ c2p' = c2p
             /\ p2c' = Append(p2c, req')
             /\ "controller" \in holders'
             /\ \A i \in 1..Len(assigned) : assigned[i] < request_id'
             /\ \A i \in 1..Len(c2p) : c2p[i].request_id < request_id'
             /\ \A i \in 1..Len(p2c) : p2c[i].request_id < request_id' ]_vars
    /\ [][ (cpc = "idle" /\ cpc' = "recv") =>
             /\ \A i \in 1..Len(c2p) : c2p[i].request_id < req'.request_id
             /\ \A i \in 1..Len(p2c) : p2c[i].request_id < req'.request_id
             /\ preq.request_id < req'.request_id
             /\ presp.request_id < req'.request_id
             /\ executed[req'.request_id] = 0 ]_vars
    /\ [][ (cpc = "recv" /\ cpc' # "recv" /\ ControllerReceives) =>
             /\ Head(c2p).request_id = req.request_id
             /\ executed[req.request_id] = 1
             /\ answered[req.request_id] = 1 ]_vars

\* a command of a second session returned, after a start() that found
\* messages of the first session in the pipe
C22_Witness ==
    /\ leftover > 0
    /\ Len(assigned) = 3
    /\ cpc = "idle"
    /\ op \in CommandOps
    /\ ret.op = op
    /\ ret.outcome = "returned"
    /\ ret.inner = True
    /\ executed[3] = 1

====
